---------------------------- MODULE Spec2Model ----------------------------
(***************************************************************************)
(* Model of ppv_npv_app.py, the "Interactive Screening Test Explorer".     *)
(*                                                                         *)
(* The script is run top to bottom once per interaction.  One run is the   *)
(* sequence of steps  sliders -> core calculations -> likelihood ratios    *)
(* -> Bayesian post-test probability -> case examples -> downloads, and a  *)
(* run that raises an exception stops where it raised.                     *)
(*                                                                         *)
(* Numbers.  The script computes with Python floats.  The model computes   *)
(* with exact rationals [n, d] in lowest terms (d > 0), so it says what    *)
(* the formulas compute and not how a binary double rounds it.  What the   *)
(* model keeps of float arithmetic is the one thing that changes control   *)
(* flow: a true division whose divisor is zero raises ZeroDivisionError.   *)
(* A divisor of the script is exactly 0.0 in floats precisely when it is   *)
(* zero as a rational (1 - 1.0, and sums of non-negative products).        *)
(***************************************************************************)
EXTENDS Integers, Sequences, FiniteSets, TLC

VARIABLES pc,           \* position of the run in the script
          test_choice,  \* line 80
          slider,       \* what the three sliders returned, lines 93-95
          sens, spec, prev,   \* the script's variables of these names
          ppv, npv,     \* lines 108-109
          metric,       \* the texts of the two st.metric calls, lines 132/135
          counts,       \* disease, no_disease, TP, FN, TN, FP, lines 112-118
          LR_pos, LR_neg,     \* lines 161-162
          lr_text,      \* what lr_interpret returned, lines 177-178
          test_result,  \* line 187
          post_prob,    \* line 194
          case,         \* line 235
          pdf,          \* the lines drawn into the PDF summary, 279-283
          error         \* the exception that ended the run, or "none"

vars == <<pc, test_choice, slider, sens, spec, prev, ppv, npv, metric, counts,
          LR_pos, LR_neg, lr_text, test_result, post_prob, case, pdf, error>>

---------------------------------------------------------------------------
(* Bounds of the model: how many sample points of each input are explored. *)

\* number of slider positions (percent) explored for sensitivity/specificity
NumPct == 6
\* number of prevalence slider positions explored
NumPrev == 5
\* number of points of [0,1] explored when a function is called directly
NumUnit == 6
\* number of likelihood-ratio values explored when called directly
NumLR == 9

---------------------------------------------------------------------------
(* Exact rational arithmetic, standing for Python's float operators.       *)

Abs(x) == IF x < 0 THEN -x ELSE x

RECURSIVE Gcd(_, _)
Gcd(a, b) == IF b = 0 THEN a ELSE Gcd(b, a % b)

\* the rational n/d in lowest terms, d > 0
Rat(n, d) ==
    LET g == Gcd(Abs(n), Abs(d))
        s == IF d < 0 THEN -1 ELSE 1
    IN  [n |-> (s * n) \div g, d |-> (s * d) \div g]

Zero == [n |-> 0, d |-> 1]
One == [n |-> 1, d |-> 1]
Num(k) == [n |-> k, d |-> 1]

\* a name that holds no number: not assigned yet, or its evaluation raised
NoValue == [n |-> 0, d |-> 0]
Raised(x) == x.d = 0

Add(a, b) ==
    LET g == Gcd(a.d, b.d)
    IN  Rat(a.n * (b.d \div g) + b.n * (a.d \div g), (a.d \div g) * b.d)

Neg(a) == [n |-> -a.n, d |-> a.d]
Sub(a, b) == Add(a, Neg(b))

Mul(a, b) ==
    LET g1 == Gcd(Abs(a.n), b.d)
        g2 == Gcd(Abs(b.n), a.d)
    IN  Rat((a.n \div g1) * (b.n \div g2), (a.d \div g2) * (b.d \div g1))

\* Python's a / b on floats: ZeroDivisionError when b is zero
TrueDiv(a, b) ==
    IF Raised(a) \/ Raised(b) \/ b.n = 0
    THEN NoValue
    ELSE Mul(a, Rat(b.d, b.n))

\* n1/d1 <= n2/d2 (d1, d2 > 0), by comparing the continued fractions, so
\* that no product of a numerator and a denominator is formed
RECURSIVE CmpLeq(_, _, _, _)
CmpLeq(n1, d1, n2, d2) ==
    IF n1 \div d1 # n2 \div d2 THEN n1 \div d1 < n2 \div d2
    ELSE IF n1 % d1 = 0 THEN TRUE
    ELSE IF n2 % d2 = 0 THEN FALSE
    ELSE CmpLeq(d2, n2 % d2, d1, n1 % d1)

\* Python's a <= b and a < b on floats
Leq(a, b) == CmpLeq(a.n, a.d, b.n, b.d)
Lt(a, b) == ~Leq(b, a)

RECURSIVE Pow10(_)
Pow10(k) == IF k = 0 THEN 1 ELSE 10 * Pow10(k - 1)

\* k decimal digits of r/d (0 <= r < d) by long division: quotient and rest
RECURSIVE LongDiv(_, _, _)
LongDiv(r, d, k) ==
    IF k = 0
    THEN [q |-> 0, r |-> r]
    ELSE LET h == LongDiv(r, d, k - 1)
         IN  [q |-> 10 * h.q + (10 * h.r) \div d, r |-> (10 * h.r) % d]

\* Python's f"{x*100:.1f}" (k = 3) and f"{x*100:.2f}" (k = 4): x rounded to
\* k decimal digits, ties to even, as the integer number of 10^-k units
Fmt(x, k) ==
    LET f == LongDiv(x.n % x.d, x.d, k)
        q == (x.n \div x.d) * Pow10(k) + f.q
    IN  IF 2 * f.r > x.d \/ (2 * f.r = x.d /\ q % 2 = 1) THEN q + 1 ELSE q

---------------------------------------------------------------------------
(* CORE CALCULATIONS, lines 97-118.                                        *)

population == 100000

\* calc_ppv with the complement of the specificity forgotten
calc_ppv_no_complement(s, p, prv) ==
    TrueDiv(Mul(s, prv),
            Add(Mul(s, prv), Mul(p, Sub(One, prv))))

calc_ppv(s, p, prv) ==
    TrueDiv(Mul(s, prv),
            Add(Mul(s, prv), Mul(Sub(One, p), Sub(One, prv))))

\* calc_npv with the two terms of the denominator subtracted
calc_npv_minus(s, p, prv) ==
    TrueDiv(Mul(p, Sub(One, prv)),
            Sub(Mul(p, Sub(One, prv)), Mul(Sub(One, s), prv)))

calc_npv(s, p, prv) ==
    TrueDiv(Mul(p, Sub(One, prv)),
            Add(Mul(p, Sub(One, prv)), Mul(Sub(One, s), prv)))

\* the 2x2 counts with FP taken from the wrong column
Counts2x2_wrong_column(s, p, prv) ==
    LET disease == Mul(Num(population), prv)
        no_disease == Sub(Num(population), disease)
        TP == Mul(s, disease)
        FN == Sub(disease, TP)
        TN == Mul(p, no_disease)
        FP == Sub(no_disease, TP)
    IN  [disease |-> disease, no_disease |-> no_disease,
         TP |-> TP, FN |-> FN, TN |-> TN, FP |-> FP]

\* the 2x2 counts, lines 112-118
Counts2x2(s, p, prv) ==
    LET disease == Mul(Num(population), prv)
        no_disease == Sub(Num(population), disease)
        TP == Mul(s, disease)
        FN == Sub(disease, TP)
        TN == Mul(p, no_disease)
        FP == Sub(no_disease, TN)
    IN  [disease |-> disease, no_disease |-> no_disease,
         TP |-> TP, FN |-> FN, TN |-> TN, FP |-> FP]

NoCounts ==
    [disease |-> NoValue, no_disease |-> NoValue,
     TP |-> NoValue, FN |-> NoValue, TN |-> NoValue, FP |-> NoValue]

---------------------------------------------------------------------------
(* LIKELIHOOD RATIOS, lines 159-178.                                       *)

\* line 161
LRpos(s, p) == TrueDiv(s, Sub(One, p))

\* LR- with the sensitivity not complemented
LRneg_no_complement(s, p) == TrueDiv(s, p)

\* line 162
LRneg(s, p) == TrueDiv(Sub(One, s), p)

\* lr_interpret with the band edges on the other side (>= and <=)
lr_interpret_inclusive(val, pos) ==
    IF pos
    THEN IF Leq(Num(10), val) THEN "Strong evidence for disease"
         ELSE IF Leq(Num(5), val) THEN "Moderate evidence"
         ELSE "Weak evidence"
    ELSE IF Leq(val, Rat(1, 10)) THEN "Strong evidence against disease"
         ELSE IF Leq(val, Rat(2, 10)) THEN "Moderate evidence"
         ELSE "Weak evidence"

\* lines 167-175

lr_interpret(val, pos) ==
    IF pos
    THEN IF Lt(Num(10), val) THEN "Strong evidence for disease"
         ELSE IF Lt(Num(5), val) THEN "Moderate evidence"
         ELSE "Weak evidence"
    ELSE IF Lt(val, Rat(1, 10)) THEN "Strong evidence against disease"
         ELSE IF Lt(val, Rat(2, 10)) THEN "Moderate evidence"
         ELSE "Weak evidence"

---------------------------------------------------------------------------
(* BAYESIAN POST-TEST PROBABILITY, lines 189-194.                          *)

\* the post-test odds shown as if they were the probability
PostTestProb_odds(LR, prv) ==
    IF Raised(TrueDiv(prv, Sub(One, prv)))
    THEN NoValue
    ELSE Mul(LR, TrueDiv(prv, Sub(One, prv)))

PostTestProb(LR, prv) ==
    LET post == Mul(LR, TrueDiv(prv, Sub(One, prv)))
    IN  IF Raised(TrueDiv(prv, Sub(One, prv)))
        THEN NoValue
        ELSE TrueDiv(post, Add(One, post))

---------------------------------------------------------------------------
(* The inputs explored.                                                    *)

Take(seq, k) == {seq[i] : i \in 1..k}

\* positions of the two integer sliders st.slider(.., 1, 100, ..), in percent
PctSamples == <<100, 1, 75, 95, 80, 99, 92, 87, 90, 50>>
SliderPcts == Take(PctSamples, NumPct)

\* positions of st.slider("Prevalence (%)", 0.01, 40.0, 0.3), in hundredths
\* of a percent (the float slider's step is 0.01)
PrevSamples == <<1, 4000, 30, 2500, 1200, 500, 300, 100>>
SliderPrevs == Take(PrevSamples, NumPrev)

\* points of [0,1] in hundredths, for direct calls of the functions
UnitSamples == <<0, 100, 50, 92, 87, 12, 1, 99>>
UnitPoints == {Rat(k, 100) : k \in Take(UnitSamples, NumUnit)}

\* likelihood ratios >= 0 for direct calls, the band edges among them
LRSamples == <<Rat(10, 1), Rat(5, 1), Rat(1, 10), Rat(1, 5), Rat(0, 1),
               Rat(11, 1), Rat(51, 10), Rat(3, 20), Rat(1, 20), Rat(1, 1),
               Rat(100, 1)>>
LRPoints == Take(LRSamples, NumLR)

---------------------------------------------------------------------------
(* Static data of the script.                                              *)

TestTypes == {"FIT", "FIT-DNA (Cologuard)", "Colonoscopy", "Custom"}

\* lines 69-73 and 83-88: the slider defaults int(sens_default * 100)
sens_default(tc) ==
    CASE tc = "FIT" -> 75
      [] tc = "FIT-DNA (Cologuard)" -> 92
      [] tc = "Colonoscopy" -> 95
      [] OTHER -> 80

spec_default(tc) ==
    CASE tc = "FIT" -> 95
      [] tc = "FIT-DNA (Cologuard)" -> 87
      [] tc = "Colonoscopy" -> 99
      [] OTHER -> 90

Cases == {"Population Screening (FIT)", "Primary Care Symptomatic Patient",
          "High-Risk GI Clinic (FIT-DNA)", "Hospital Inpatient with Symptoms"}

\* lines 245-263
CaseParams(c) ==
    CASE c = "Population Screening (FIT)" ->
           [sens |-> Rat(75, 100), spec |-> Rat(95, 100), prev |-> Rat(3, 1000)]
      [] c = "Primary Care Symptomatic Patient" ->
           [sens |-> Rat(80, 100), spec |-> Rat(90, 100), prev |-> Rat(5, 100)]
      [] c = "High-Risk GI Clinic (FIT-DNA)" ->
           [sens |-> Rat(92, 100), spec |-> Rat(87, 100), prev |-> Rat(12, 100)]
      [] OTHER ->
           [sens |-> Rat(95, 100), spec |-> Rat(99, 100), prev |-> Rat(25, 100)]

NoSlider == [sens |-> NoValue, spec |-> NoValue, prev |-> NoValue]
NoMetric == [shown |-> FALSE, PPV |-> 0, NPV |-> 0]
NoLrText == [pos |-> "", neg |-> ""]
NoPdf == [drawn |-> FALSE, Sensitivity |-> 0, Specificity |-> 0,
          Prevalence |-> 0, PPV |-> 0, NPV |-> 0]

---------------------------------------------------------------------------
(* One run of the script.                                                  *)

\* nothing of the run has executed yet
Fresh ==
    /\ test_choice = ""
    /\ slider = NoSlider
    /\ sens = NoValue /\ spec = NoValue /\ prev = NoValue
    /\ ppv = NoValue /\ npv = NoValue
    /\ metric = NoMetric
    /\ counts = NoCounts
    /\ LR_pos = NoValue /\ LR_neg = NoValue
    /\ lr_text = NoLrText
    /\ test_result = ""
    /\ post_prob = NoValue
    /\ case = ""
    /\ pdf = NoPdf
    /\ error = "none"

Init == pc = "setup" /\ Fresh

\* lines 80-95: the test type and the three sliders
TestSetup ==
    /\ pc = "setup"
    /\ \E tc \in TestTypes :
       \E a \in SliderPcts \cup {sens_default(tc)} :
       \E b \in SliderPcts \cup {spec_default(tc)} :
       \E h \in SliderPrevs :
          /\ test_choice' = tc
          /\ sens' = Rat(a, 100)
          /\ spec' = Rat(b, 100)
          /\ prev' = Rat(h, 10000)
          /\ slider' = [sens |-> Rat(a, 100), spec |-> Rat(b, 100),
                        prev |-> Rat(h, 10000)]
    /\ pc' = "core"
    /\ UNCHANGED <<ppv, npv, metric, counts, LR_pos, LR_neg, lr_text,
                   test_result, post_prob, case, pdf, error>>

\* lines 108-136: PPV, NPV, the 2x2 counts and the "PPV & NPV" panel
CoreCalculations ==
    /\ pc = "core"
    /\ ppv' = calc_ppv(sens, spec, prev)
    /\ IF Raised(calc_ppv(sens, spec, prev))
       THEN /\ pc' = "aborted"
            /\ error' = "ZeroDivisionError"
            /\ UNCHANGED <<npv, counts, metric>>
       ELSE /\ npv' = calc_npv(sens, spec, prev)
            /\ IF Raised(calc_npv(sens, spec, prev))
               THEN /\ pc' = "aborted"
                    /\ error' = "ZeroDivisionError"
                    /\ UNCHANGED <<counts, metric>>
               ELSE /\ counts' = Counts2x2(sens, spec, prev)
                    /\ metric' = [shown |-> TRUE,
                                  PPV |-> Fmt(calc_ppv(sens, spec, prev), 4),
                                  NPV |-> Fmt(calc_npv(sens, spec, prev), 4)]
                    /\ pc' = "lr"
                    /\ UNCHANGED error
    /\ UNCHANGED <<test_choice, slider, sens, spec, prev, LR_pos, LR_neg,
                   lr_text, test_result, post_prob, case, pdf>>

\* lines 159-178: LR+ and LR-, and their interpretation
LikelihoodRatios ==
    /\ pc = "lr"
    /\ IF Raised(LRpos(sens, spec))
       THEN /\ pc' = "aborted"
            /\ error' = "ZeroDivisionError"
            /\ UNCHANGED <<LR_pos, LR_neg, lr_text>>
       ELSE /\ LR_pos' = LRpos(sens, spec)
            /\ IF Raised(LRneg(sens, spec))
               THEN /\ pc' = "aborted"
                    /\ error' = "ZeroDivisionError"
                    /\ UNCHANGED <<LR_neg, lr_text>>
               ELSE /\ LR_neg' = LRneg(sens, spec)
                    /\ lr_text' =
                         [pos |-> lr_interpret(LRpos(sens, spec), TRUE),
                          neg |-> lr_interpret(LRneg(sens, spec), FALSE)]
                    /\ pc' = "bayes"
                    /\ UNCHANGED error
    /\ UNCHANGED <<test_choice, slider, sens, spec, prev, ppv, npv, metric,
                   counts, test_result, post_prob, case, pdf>>

\* lines 189-194
Bayes(tr, lrp, lrn, prv) ==
    PostTestProb(IF tr = "Positive" THEN lrp ELSE lrn, prv)

\* lines 183-196: the radio button and the post-test probability
BayesianPostTest ==
    /\ pc = "bayes"
    /\ \E tr \in {"Positive", "Negative"} :
          /\ test_result' = tr
          /\ post_prob' = Bayes(tr, LR_pos, LR_neg, prev)
          /\ IF Raised(Bayes(tr, LR_pos, LR_neg, prev))
             THEN /\ pc' = "aborted"
                  /\ error' = "ZeroDivisionError"
             ELSE /\ pc' = "case"
                  /\ UNCHANGED error
    /\ UNCHANGED <<test_choice, slider, sens, spec, prev, ppv, npv, metric,
                   counts, LR_pos, LR_neg, lr_text, case, pdf>>

\* lines 231-267: the case selectbox reassigns sens, spec and prev
\* (the ROC and prevalence-explorer panels before it only draw)
CaseExamples ==
    /\ pc = "case"
    /\ \E c \in Cases :
          /\ case' = c
          /\ sens' = CaseParams(c).sens
          /\ spec' = CaseParams(c).spec
          /\ prev' = CaseParams(c).prev
    /\ pc' = "downloads"
    /\ UNCHANGED <<test_choice, slider, ppv, npv, metric, counts, LR_pos,
                   LR_neg, lr_text, test_result, post_prob, pdf, error>>

\* lines 279-283: what the five drawString calls write
PdfSummary(s, p, prv) ==
    [drawn |-> TRUE,
     Sensitivity |-> Fmt(s, 3),
     Specificity |-> Fmt(p, 3),
     Prevalence |-> Fmt(prv, 4),
     PPV |-> Fmt(calc_ppv(s, p, prv), 4),
     NPV |-> Fmt(calc_npv(s, p, prv), 4)]

\* lines 272-292: the PDF button
Downloads ==
    /\ pc = "downloads"
    /\ \E pressed \in BOOLEAN :
          IF ~pressed
          THEN /\ pc' = "done"
               /\ UNCHANGED <<pdf, error>>
          ELSE IF Raised(calc_ppv(sens, spec, prev))
                    \/ Raised(calc_npv(sens, spec, prev))
               THEN /\ pc' = "aborted"
                    /\ error' = "ZeroDivisionError"
                    /\ UNCHANGED pdf
               ELSE /\ pc' = "done"
                    /\ pdf' = PdfSummary(sens, spec, prev)
                    /\ UNCHANGED error
    /\ UNCHANGED <<test_choice, slider, sens, spec, prev, ppv, npv, metric,
                   counts, LR_pos, LR_neg, lr_text, test_result, post_prob,
                   case>>

\* an interaction with a widget runs the script again from the top
Rerun ==
    /\ pc \in {"done", "aborted"}
    /\ pc' = "setup"
    /\ test_choice' = ""
    /\ slider' = NoSlider
    /\ sens' = NoValue /\ spec' = NoValue /\ prev' = NoValue
    /\ ppv' = NoValue /\ npv' = NoValue
    /\ metric' = NoMetric
    /\ counts' = NoCounts
    /\ LR_pos' = NoValue /\ LR_neg' = NoValue
    /\ lr_text' = NoLrText
    /\ test_result' = ""
    /\ post_prob' = NoValue
    /\ case' = ""
    /\ pdf' = NoPdf
    /\ error' = "none"

Next ==
    \/ TestSetup
    \/ CoreCalculations
    \/ LikelihoodRatios
    \/ BayesianPostTest
    \/ CaseExamples
    \/ Downloads
    \/ Rerun

Spec == Init /\ [][Next]_vars

---------------------------------------------------------------------------
(* The functions and formulas called directly, on arguments from the whole *)
(* of [0,1] (the sliders reach only a part of it).  The arguments are      *)
(* drawn at the start; each action evaluates one of them as the script     *)
(* does and records what it returned or that it raised.                    *)

CallInit ==
    /\ pc = "call"
    /\ sens \in UnitPoints
    /\ spec \in UnitPoints
    /\ prev \in UnitPoints
    /\ test_choice = "Custom"
    /\ slider = NoSlider
    /\ ppv = NoValue /\ npv = NoValue
    /\ metric = NoMetric
    /\ counts = NoCounts
    /\ LR_pos = NoValue /\ LR_neg = NoValue
    /\ lr_text = NoLrText
    /\ test_result = ""
    /\ post_prob = NoValue
    /\ case = ""
    /\ pdf = NoPdf
    /\ error = "none"

\* line 108 on its own
Call_calc_ppv ==
    /\ pc = "call"
    /\ ppv' = calc_ppv(sens, spec, prev)
    /\ error' = IF Raised(calc_ppv(sens, spec, prev))
                THEN "ZeroDivisionError" ELSE "none"
    /\ pc' = "calc_ppv"
    /\ UNCHANGED <<test_choice, slider, sens, spec, prev, npv, metric, counts,
                   LR_pos, LR_neg, lr_text, test_result, post_prob, case, pdf>>

\* line 109 on its own
Call_calc_npv ==
    /\ pc = "call"
    /\ npv' = calc_npv(sens, spec, prev)
    /\ error' = IF Raised(calc_npv(sens, spec, prev))
                THEN "ZeroDivisionError" ELSE "none"
    /\ pc' = "calc_npv"
    /\ UNCHANGED <<test_choice, slider, sens, spec, prev, ppv, metric, counts,
                   LR_pos, LR_neg, lr_text, test_result, post_prob, case, pdf>>

\* lines 112-118 on their own
Call_counts ==
    /\ pc = "call"
    /\ counts' = Counts2x2(sens, spec, prev)
    /\ pc' = "counts"
    /\ UNCHANGED <<test_choice, slider, sens, spec, prev, ppv, npv, metric,
                   LR_pos, LR_neg, lr_text, test_result, post_prob, case, pdf,
                   error>>

\* lines 167-178 on their own: lr_interpret on a given pair of ratios
Call_lr_interpret ==
    /\ pc = "call"
    /\ \E lrp \in LRPoints, lrn \in LRPoints :
          /\ LR_pos' = lrp
          /\ LR_neg' = lrn
          /\ lr_text' = [pos |-> lr_interpret(lrp, TRUE),
                         neg |-> lr_interpret(lrn, FALSE)]
    /\ pc' = "lr_interpret"
    /\ UNCHANGED <<test_choice, slider, sens, spec, prev, ppv, npv, metric,
                   counts, test_result, post_prob, case, pdf, error>>

\* lines 189-194 on their own: the post-test probability of given ratios
Call_post_test ==
    /\ pc = "call"
    /\ \E lrp \in LRPoints, lrn \in LRPoints, tr \in {"Positive", "Negative"} :
          /\ LR_pos' = lrp
          /\ LR_neg' = lrn
          /\ test_result' = tr
          /\ post_prob' = Bayes(tr, lrp, lrn, prev)
          /\ error' = IF Raised(Bayes(tr, lrp, lrn, prev))
                      THEN "ZeroDivisionError" ELSE "none"
    /\ pc' = "post_test"
    /\ UNCHANGED <<test_choice, slider, sens, spec, prev, ppv, npv, metric,
                   counts, lr_text, case, pdf>>

CallNext ==
    \/ Call_calc_ppv
    \/ Call_calc_npv
    \/ Call_counts
    \/ Call_lr_interpret
    \/ Call_post_test

CallSpec == CallInit /\ [][CallNext]_vars

---------------------------------------------------------------------------
(* Properties.                                                             *)

InUnit(x) == ~Raised(x) /\ Leq(Zero, x) /\ Leq(x, One)

\* C1: for every input the sliders can produce the likelihood-ratio step
\* finishes without aborting the run, and at specificity 1 (slider at 100%)
\* LR+ is surfaced as an 'undefined' outcome and not as an unhandled
\* division error.  (Checked under Spec; the script violates it.)
C1_LikelihoodStepNeverAborts ==
    /\ pc # "aborted"
    /\ error # "ZeroDivisionError"

\* C2: in the degenerate 0/0 cases the predictive-value functions return 0:
\* calc_ppv(s, p, prev) = 0 when prev = 0 and p = 1, calc_npv(s, p, prev) = 0
\* when prev = 1 and s = 1, for sensitivity/specificity in (0,1]; neither
\* call raises.  (Checked under CallSpec; the script violates it.)
C2_DegenerateReturnsZero ==
    /\ (pc = "calc_ppv" /\ prev = Zero /\ spec = One /\ sens # Zero)
          => (error = "none" /\ ppv = Zero)
    /\ (pc = "calc_npv" /\ prev = One /\ sens = One /\ spec # Zero)
          => (error = "none" /\ npv = Zero)

FitScenario == [sens |-> Rat(75, 100), spec |-> Rat(95, 100),
                prev |-> Rat(3, 1000)]
InpatientScenario == [sens |-> Rat(95, 100), spec |-> Rat(99, 100),
                      prev |-> Rat(25, 100)]

\* C3 as stated: at sens=0.75, spec=0.95, prev=0.003 PPV rounds to 0.0433
\* and NPV to 0.99921 (99.92%); at sens=0.95, spec=0.99, prev=0.25 PPV rounds
\* to 0.9694 and NPV to 0.9836 -- in the panel when the sliders are there,
\* and in the PDF summary of the case example.
C3_ScenariosAsStated ==
    /\ (metric.shown /\ slider = FitScenario)
          => (metric.PPV = 433 /\ metric.NPV = 9992 /\ Fmt(npv, 5) = 99921)
    /\ (metric.shown /\ slider = InpatientScenario)
          => (metric.PPV = 9694 /\ metric.NPV = 9836)
    /\ (pdf.drawn /\ case = "Population Screening (FIT)")
          => (pdf.PPV = 433 /\ pdf.NPV = 9992)
    /\ (pdf.drawn /\ case = "Hospital Inpatient with Symptoms")
          => (pdf.PPV = 9694 /\ pdf.NPV = 9836)

\* C3 amended: at sens=0.75, spec=0.95, prev=0.003 PPV rounds to 0.0432
\* (4.32%) and NPV to 0.99921 (99.92%); at sens=0.95, spec=0.99, prev=0.25
\* PPV rounds to 0.9694 and NPV to 0.9834.
C3_ScenariosRounded ==
    /\ (metric.shown /\ slider = FitScenario)
          => (metric.PPV = 432 /\ metric.NPV = 9992 /\ Fmt(npv, 5) = 99921)
    /\ (metric.shown /\ slider = InpatientScenario)
          => (metric.PPV = 9694 /\ metric.NPV = 9834)
    /\ (pdf.drawn /\ case = "Population Screening (FIT)")
          => (pdf.PPV = 432 /\ pdf.NPV = 9992)
    /\ (pdf.drawn /\ case = "Hospital Inpatient with Symptoms")
          => (pdf.PPV = 9694 /\ pdf.NPV = 9834)

C3_Witness ==
    /\ pc = "done"
    /\ slider = FitScenario
    /\ metric.shown
    /\ pdf.drawn
    /\ case = "Hospital Inpatient with Symptoms"

\* C4: for sensitivity, specificity and prevalence in [0,1] and N = 100000
\* the four counts are >= 0 and partition the population: TP + FN = N*prev,
\* TN + FP = N*(1 - prev), TP + FN + TN + FP = N; and sens=0.92, spec=0.87,
\* prev=0.12 gives TP=11040, FN=960, TN=76560, FP=11440.
C4_CountsPartition ==
    pc = "counts" =>
      /\ Leq(Zero, counts.TP) /\ Leq(Zero, counts.FN)
      /\ Leq(Zero, counts.TN) /\ Leq(Zero, counts.FP)
      /\ Add(counts.TP, counts.FN) = Mul(Num(population), prev)
      /\ Add(counts.TN, counts.FP) = Mul(Num(population), Sub(One, prev))
      /\ Add(Add(counts.TP, counts.FN), Add(counts.TN, counts.FP))
            = Num(population)
      /\ (sens = Rat(92, 100) /\ spec = Rat(87, 100) /\ prev = Rat(12, 100))
            => /\ counts.disease = Num(12000)
               /\ counts.TP = Num(11040) /\ counts.FN = Num(960)
               /\ counts.TN = Num(76560) /\ counts.FP = Num(11440)

C4_Witness ==
    /\ pc = "counts"
    /\ sens = Rat(92, 100) /\ spec = Rat(87, 100) /\ prev = Rat(12, 100)
    /\ counts.FP = Num(11440)

\* C5: for fixed slider sensitivity and specificity and any two slider
\* prevalences prev1 <= prev2, calc_ppv(prev1) <= calc_ppv(prev2) and
\* calc_npv(prev1) >= calc_npv(prev2).  prev1 is the prevalence of the run
\* (ppv and npv are what the run computed), prev2 ranges over the slider.
C5_MonotoneInPrevalence ==
    metric.shown =>
      \A h2 \in SliderPrevs :
         Leq(slider.prev, Rat(h2, 10000)) =>
            /\ Leq(ppv, calc_ppv(slider.sens, slider.spec, Rat(h2, 10000)))
            /\ Leq(calc_npv(slider.sens, slider.spec, Rat(h2, 10000)), npv)

C5_Witness ==
    /\ metric.shown
    /\ slider.prev = Rat(30, 10000)
    /\ \E h2 \in SliderPrevs :
          /\ Lt(slider.prev, Rat(h2, 10000))
          /\ Lt(ppv, calc_ppv(slider.sens, slider.spec, Rat(h2, 10000)))
          /\ Lt(calc_npv(slider.sens, slider.spec, Rat(h2, 10000)), npv)

Strictly01(x) == Lt(Zero, x) /\ Lt(x, One)

\* C6: for sensitivity, specificity and prevalence strictly between 0 and 1
\* calc_ppv and calc_npv have a non-zero denominator (the call does not
\* raise) and return a value in [0,1].
C6_PredictiveValuesInUnit ==
    (Strictly01(sens) /\ Strictly01(spec) /\ Strictly01(prev)) =>
      /\ pc = "calc_ppv" => (error = "none" /\ InUnit(ppv))
      /\ pc = "calc_npv" => (error = "none" /\ InUnit(npv))

C6_Witness ==
    /\ pc = "calc_npv"
    /\ Strictly01(sens) /\ Strictly01(spec) /\ Strictly01(prev)
    /\ Strictly01(npv)

\* C7: lr_interpret returns the band of the classification: for LR+,
\* val > 10 strong, 5 < val <= 10 moderate, val <= 5 weak; for LR-,
\* val < 0.1 strong against, 0.1 <= val < 0.2 moderate, val >= 0.2 weak;
\* one band for every ratio >= 0.
C7_BandsAsSpecified ==
    pc = "lr_interpret" =>
      /\ Lt(Num(10), LR_pos)
            => lr_text.pos = "Strong evidence for disease"
      /\ (Lt(Num(5), LR_pos) /\ Leq(LR_pos, Num(10)))
            => lr_text.pos = "Moderate evidence"
      /\ Leq(LR_pos, Num(5))
            => lr_text.pos = "Weak evidence"
      /\ Lt(LR_neg, Rat(1, 10))
            => lr_text.neg = "Strong evidence against disease"
      /\ (Leq(Rat(1, 10), LR_neg) /\ Lt(LR_neg, Rat(1, 5)))
            => lr_text.neg = "Moderate evidence"
      /\ Leq(Rat(1, 5), LR_neg)
            => lr_text.neg = "Weak evidence"
      /\ lr_text.pos \in {"Strong evidence for disease", "Moderate evidence",
                          "Weak evidence"}
      /\ lr_text.neg \in {"Strong evidence against disease",
                          "Moderate evidence", "Weak evidence"}

C7_Witness ==
    /\ pc = "lr_interpret"
    /\ LR_pos = Num(10) /\ lr_text.pos = "Moderate evidence"
    /\ LR_neg = Rat(1, 10) /\ lr_text.neg = "Moderate evidence"

\* C8: for every likelihood ratio >= 0 and prevalence in [0,1) the post-test
\* probability post/(1 + post), post = LR * prev/(1 - prev), lies in [0,1],
\* on the 'Positive' branch (LR+) and on the 'Negative' branch (LR-).
C8_PostTestInUnit ==
    (pc = "post_test" /\ Lt(prev, One)) =>
      /\ error = "none"
      /\ InUnit(post_prob)

C8_Witness ==
    /\ pc = "post_test"
    /\ test_result = "Negative"
    /\ Lt(Num(10), LR_neg)
    /\ Strictly01(prev)
    /\ Strictly01(post_prob)

\* C9: in a run, the sensitivity, specificity, prevalence, PPV and NPV
\* written into the PDF summary are those of the sliders and of the
\* 'PPV & NPV' panel of that run.  (Checked under Spec; the script
\* violates it.)
C9_PdfMatchesPanel ==
    pdf.drawn =>
      /\ pdf.Sensitivity = Fmt(slider.sens, 3)
      /\ pdf.Specificity = Fmt(slider.spec, 3)
      /\ pdf.Prevalence = Fmt(slider.prev, 4)
      /\ pdf.PPV = metric.PPV
      /\ pdf.NPV = metric.NPV

\* C10: the Bayesian panel agrees with the predictive values of the run:
\* the post-test probability for 'Positive' equals PPV and the one for
\* 'Negative' equals 1 - NPV, as exact rationals (specificity < 1).
C10_BayesAgreesWithPredictiveValues ==
    (test_result # "" /\ error = "none") =>
      /\ test_result = "Positive" => post_prob = ppv
      /\ test_result = "Negative" => post_prob = Sub(One, npv)

C10_Witness ==
    /\ pc = "case"
    /\ test_result = "Negative"
    /\ Strictly01(post_prob)
    /\ post_prob = Sub(One, npv)

===========================================================================
